---- MODULE Spec2Model ----
(***************************************************************************)
(* Model of broken_link_checker.py: the crawl loop that starts when the    *)
(* "Start Scan" button is pressed, its URL handling and its report.        *)
(*                                                                         *)
(* Text is modelled as a sequence of tokens, so that two texts are equal   *)
(* exactly when their token sequences are equal:                           *)
(*   "https://www.example.com/about#x"  is                                 *)
(*   <<"https", ":", "//", "www.", "example.com", "/about", "#", "x">>     *)
(* A token " " is a run of whitespace.  Path tokens ("/", "/about", "/f")  *)
(* are absolute paths without dot segments.                                *)
(***************************************************************************)
EXTENDS Integers, Sequences, FiniteSets, TLC

VARIABLES
    start_url,          \* text input (line 25)
    max_pages,          \* number input (line 32)
    check_external,     \* checkbox (line 37)
    follow_redirects,   \* checkbox (line 38)
    pc,                 \* position of the script
    visited,            \* set of page URLs (line 50)
    to_visit,           \* list of page URLs (line 51)
    results,            \* list of records (line 52)
    domain,             \* netloc of the seed (line 53)
    page_count,         \* line 62
    current_url,        \* line 65
    anchors,            \* number of anchors of the current page still to be iterated (line 90)
    metrics,            \* the three numbers shown by the report (lines 181-183)
    served,             \* number of anchors the site has served so far
    popped,             \* history: the URLs returned by to_visit.pop(0)
    last,               \* history: what the latest iteration of the link loop did
    fetched,            \* history: what the request of the latest page did (line 76)
    appended,           \* history: the URLs put into to_visit, in order, each with
                        \* len(results) at that moment (lines 51 and 148)
    order               \* history: the URLs added to visited, in order (line 70)

vars == <<start_url, max_pages, check_external, follow_redirects, pc, visited,
          to_visit, results, domain, page_count, current_url, anchors, metrics,
          served, popped, last, fetched, appended, order>>

----------------------------------------------------------------------------
(* Bounds of the model *)

\* largest page budget tried: max_pages is drawn from 1..MaxBudget.  The number
\* input of line 32 offers 10..300; the loop of lines 64-163 reads max_pages only
\* in its test, so small budgets show the same behaviour with fewer pages.
MaxBudget == 2

\* number of anchors the site serves during one crawl, over all its pages
MaxAnchors == 2

----------------------------------------------------------------------------
(* Text helpers *)

SP == " "

Range(s) == {s[i] : i \in 1..Len(s)}

\* str.lstrip()
RECURSIVE LStrip(_)
LStrip(s) == IF s # <<>> /\ Head(s) = SP THEN LStrip(Tail(s)) ELSE s

\* str.rstrip()
RECURSIVE RStrip(_)
RStrip(s) == IF s # <<>> /\ s[Len(s)] = SP THEN RStrip(SubSeq(s, 1, Len(s) - 1)) ELSE s

\* str.strip()
Strip(s) == RStrip(LStrip(s))

\* str.startswith(prefix)
StartsWith(s, prefix) ==
    Len(s) >= Len(prefix) /\ SubSeq(s, 1, Len(prefix)) = prefix

\* str.find: the first position of a token of set T in s, at or after from; 0 when none
RECURSIVE FindFirst(_, _, _)
FindFirst(s, T, from) ==
    IF from > Len(s) THEN 0
    ELSE IF s[from] \in T THEN from
    ELSE FindFirst(s, T, from + 1)

----------------------------------------------------------------------------
(* urllib.parse *)

SchemeNames == {"http", "https", "ftp", "mailto", "tel", "javascript"}
PathTokens == {"/", "/about", "/f"}
uses_relative == {"", "http", "https", "ftp"}
uses_netloc == {"", "http", "https", "ftp"}

\* urlsplit: whether the text begins with a scheme and a colon
HasScheme(u) == Len(u) >= 2 /\ u[2] = ":" /\ u[1] \in SchemeNames

\* urlsplit: the scheme, or the default given
SchemeOf(u, scheme0) == IF HasScheme(u) THEN u[1] ELSE scheme0

\* urlsplit: the text after the scheme and its colon
AfterScheme(u) == IF HasScheme(u) THEN SubSeq(u, 3, Len(u)) ELSE u

\* urlsplit: whether a netloc follows (url[:2] == '//')
HasNetloc(u) == Len(u) >= 1 /\ u[1] = "//"

\* _splitnetloc: the end of the netloc, from the position k of the first of '/',
\* '?', '#' after the "//" (0 when there is none)
NetlocEndAt(u, k) == IF k = 0 THEN Len(u) + 1 ELSE k
NetlocEnd(u) == NetlocEndAt(u, FindFirst(u, PathTokens \cup {"#"}, 2))

\* _splitnetloc: the netloc and the text after it
NetlocOf(u) == IF HasNetloc(u) THEN SubSeq(u, 2, NetlocEnd(u) - 1) ELSE <<>>
AfterNetloc(u) == IF HasNetloc(u) THEN SubSeq(u, NetlocEnd(u), Len(u)) ELSE u

\* urlsplit: url.split('#', 1), from the position k of the first '#' (0 when none)
PathAt(u, k) == IF k = 0 THEN u ELSE SubSeq(u, 1, k - 1)
FragmentAt(u, k) == IF k = 0 THEN <<>> ELSE SubSeq(u, k + 1, Len(u))

\* urlsplit: ValueError("Invalid IPv6 URL"), one bracket without the other
InvalidIPv6(netloc) ==
    \/ "[" \in Range(netloc) /\ "]" \notin Range(netloc)
    \/ "]" \in Range(netloc) /\ "[" \notin Range(netloc)

\* urlsplit: netloc.partition('[')[2].partition(']')[0], with the first '[' at
\* position i and the first ']' after it at position j (0 when there is none)
BracketedHostTo(netloc, i, j) ==
    IF j = 0 THEN SubSeq(netloc, i + 1, Len(netloc))
    ELSE SubSeq(netloc, i + 1, j - 1)
BracketedHostFrom(netloc, i) ==
    BracketedHostTo(netloc, i, FindFirst(netloc, {"]"}, i + 1))
BracketedHost(netloc) == BracketedHostFrom(netloc, FindFirst(netloc, {"["}, 1))

\* the host texts that are addresses: IPv6, IPv4 and IPvFuture; every other
\* token is a name
IPv6Tokens == {"::1"}
IPv4Tokens == {"127.0.0.1"}
IPvFutureTokens == {"v1.x"}
VTokens == IPvFutureTokens \cup {"void(0)"}

\* _check_bracketed_host: the message of the ValueError it raises, <<>> when it
\* raises none
check_bracketed_host(hostname) ==
    IF hostname # <<>> /\ hostname[1] \in VTokens
    THEN (IF hostname[1] \in IPvFutureTokens THEN <<>>
          ELSE <<"IPvFuture address is invalid">>)
    ELSE IF Len(hostname) = 1 /\ hostname[1] \in IPv6Tokens THEN <<>>
    ELSE IF Len(hostname) = 1 /\ hostname[1] \in IPv4Tokens
         THEN <<"An IPv4 address cannot be in brackets">>
    ELSE <<"'">> \o hostname
         \o <<"' does not appear to be an IPv4 or IPv6 address">>

\* urlsplit: the message of the ValueError the netloc raises, <<>> when none
NetlocError(netloc) ==
    IF InvalidIPv6(netloc) THEN <<"Invalid IPv6 URL">>
    ELSE IF "[" \in Range(netloc) /\ "]" \in Range(netloc)
         THEN check_bracketed_host(BracketedHost(netloc))
    ELSE <<>>

\* urlsplit, from the netloc and the text after it, with '#' at position k
SplitTail(scheme, netloc, u, k) ==
    [raises |-> NetlocError(netloc) # <<>>, msg |-> NetlocError(netloc),
     scheme |-> scheme, netloc |-> netloc,
     path |-> PathAt(u, k), fragment |-> FragmentAt(u, k)]

\* urlsplit, from the text after the netloc
SplitPath(scheme, netloc, u) == SplitTail(scheme, netloc, u, FindFirst(u, {"#"}, 1))

\* urlsplit, from the text after the scheme
SplitNetloc(scheme, u) == SplitPath(scheme, NetlocOf(u), AfterNetloc(u))

\* urlsplit, from the text without leading whitespace
SplitScheme(u, scheme0) == SplitNetloc(SchemeOf(u, scheme0), AfterScheme(u))

\* urlsplit(url, scheme): the components of url, or the ValueError it raises
urlsplit(url, scheme0) == SplitScheme(LStrip(url), scheme0)

\* urlunsplit: the netloc part, with "//" in front
WithNetloc(scheme, netloc, path) ==
    IF netloc # <<>> \/ (scheme # "" /\ scheme \in uses_netloc)
    THEN <<"//">> \o netloc
         \o (IF path # <<>> /\ path[1] \notin PathTokens THEN <<"/">> ELSE <<>>)
         \o path
    ELSE path

\* urlunsplit(components)
urlunsplit(scheme, netloc, path, fragment) ==
    (IF scheme # "" THEN <<scheme, ":">> ELSE <<>>)
    \o WithNetloc(scheme, netloc, path)
    \o (IF fragment # <<>> THEN <<"#">> \o fragment ELSE <<>>)

\* what urljoin gives: a URL, or a ValueError
Joined(t) == [raises |-> FALSE, msg |-> <<>>, url |-> t]
JoinError(msg) == [raises |-> TRUE, msg |-> msg, url |-> <<>>]

\* urljoin, once base (b) and url (u) are split
JoinSplit(base, url, b, u) ==
    IF base = <<>> THEN Joined(url)
    ELSE IF url = <<>> THEN Joined(base)
    ELSE IF b.raises THEN JoinError(b.msg)
    ELSE IF u.raises THEN JoinError(u.msg)
    ELSE IF u.scheme # b.scheme \/ u.scheme \notin uses_relative THEN Joined(url)
    ELSE IF u.scheme \in uses_netloc /\ u.netloc # <<>>
         THEN Joined(urlunsplit(u.scheme, u.netloc, u.path, u.fragment))
    ELSE IF u.path = <<>>
         THEN Joined(urlunsplit(u.scheme, b.netloc, b.path, u.fragment))
    ELSE Joined(urlunsplit(u.scheme, b.netloc, u.path, u.fragment))

\* urljoin, once base is split
JoinBase(base, url, b) == JoinSplit(base, url, b, urlsplit(url, b.scheme))

\* urljoin(base, url): [raises, msg, url]
urljoin(base, url) == JoinBase(base, url, urlsplit(base, ""))

----------------------------------------------------------------------------
(* Inputs: what the user types and what the network answers *)

\* "https://example.com", "https://www.example.com", "example.com" and "http://["
Seeds ==
    { <<"https", ":", "//", "example.com">>,
      <<"https", ":", "//", "www.", "example.com">>,
      <<"example.com">>,
      <<"http", ":", "//", "[">> }

\* the href attributes a page may carry; the relative ones are absolute paths
Hrefs ==
    { <<SP>>,                                                \* "  "
      <<"#", "top">>,                                        \* "#top"
      <<"mailto", ":", "a@b.com">>,                          \* "mailto:a@b.com"
      <<"tel", ":", "123">>,                                 \* "tel:123"
      <<"javascript", ":", "void(0)">>,                      \* "javascript:void(0)"
      <<"ftp", ":", "//", "example.com", "/f">>,             \* "ftp://example.com/f"
      <<"/about">>,                                          \* "/about"
      <<SP, "/about", "#", "x", SP>>,                        \* " /about#x "
      <<"https", ":", "//", "example.com", "/about">>,       \* "https://example.com/about"
      <<"https", ":", "//", "www.", "example.com">>,         \* "https://www.example.com"
      <<"https", ":", "//", "other.org">>,                   \* "https://other.org"
      <<"http", ":", "//", "[">>,                            \* "http://["
      <<"http", ":", "//", "]">>,                            \* "http://]"
      <<"http", ":", "//", "[", "example.com", "]">> }       \* "http://[example.com]"

\* the lists of n href attributes
Anchors(n) == [1..n -> Hrefs]

\* what a request does: a response with a status code, or an exception with a message
Resp(c) == [raises |-> FALSE, status |-> c, msg |-> <<>>]
Raise(m) == [raises |-> TRUE, status |-> 0, msg |-> m]
NoRequest == [raises |-> FALSE, status |-> 0, msg |-> <<>>]

\* str(e) of the exceptions of requests; the first token of each is 60 characters long
ConnectionErrorMsg ==
    <<"HTTPSConnectionPool(host='example.com', port=443): Max retri",
      "es exceeded with url: / (Caused by NewConnectionError)">>
ChunkedEncodingMsg ==
    <<"('Connection broken: IncompleteRead(0 bytes read)', Incomple",
      "teRead(0 bytes read))">>

PageResponses ==
    {Resp(200), Resp(404)}
    \cup {Raise(ConnectionErrorMsg), Raise(ChunkedEncodingMsg)}
HeadResponses == {Resp(200), Resp(301), Resp(405), Raise(ConnectionErrorMsg)}
GetResponses == {Resp(200), Raise(ConnectionErrorMsg)}

----------------------------------------------------------------------------
(* Values of the records *)

\* a "Status Code" cell holds an int or a str
IntCode(n) == [int |-> TRUE, n |-> n, s |-> ""]
StrCode(s) == [int |-> FALSE, n |-> 0, s |-> s]

\* number of characters of a token
TokLen(t) == Len(t)

\* s[:n]; the token the cut falls into is cut
RECURSIVE Slice(_, _)
Slice(s, n) ==
    IF s = <<>> \/ n <= 0 THEN <<>>
    ELSE IF TokLen(Head(s)) > n THEN <<SubSeq(Head(s), 1, n)>>
    ELSE <<Head(s)>> \o Slice(Tail(s), n - TokLen(Head(s)))

\* the test of line 77 taken from 500 on
LoadFailedFrom500(status) == status >= 500

\* line 77: the page answered with an error status
LoadFailed(status) == status >= 400

\* the record of a page that answered with a status >= 400 (lines 78-84)
SelfRecord(url, status) ==
    [Page |-> url, Link |-> url, Type |-> "Self (page itself)",
     Code |-> IntCode(status),
     Status |-> IF status >= 400 THEN <<"Broken">> ELSE <<"OK">>]

\* the record of the page-level exception handler (lines 154-161)
FailedRecord(url, msg) ==
    [Page |-> url, Link |-> url, Type |-> "Page itself",
     Code |-> StrCode("Error"),
     Status |-> <<"Failed to crawl (">> \o Slice(msg, 60) \o <<")">>]

\* lines 103: is_internal
is_internal(link_domain, dom) ==
    link_domain = dom \/ link_domain = <<"www.">> \o dom

\* lines 112-125: the status code of a link, from what HEAD and the fallback GET did
CheckCode(head, get) ==
    IF ~head.raises THEN IntCode(head.status)
    ELSE IF ~get.raises THEN IntCode(get.status)
    ELSE StrCode("Timeout / Connection Error")

\* lines 119-122: whether the fallback GET is issued
IssuesGet(head) == head.raises

RedirectCodes == {301, 302, 307, 308}

\* status_str with the redirect label given whatever the checkbox says
StatusStrIgnoresFlag(code, follow) ==
    IF code.int
    THEN IF code.n >= 400 THEN <<"Broken">>
         ELSE IF code.n \in RedirectCodes THEN <<"Redirect">>
         ELSE <<"OK">>
    ELSE <<"Error">>

\* lines 127-134: status_str
StatusStr(code, follow) ==
    IF code.int
    THEN IF code.n >= 400 THEN <<"Broken">>
         ELSE IF code.n \in RedirectCodes
              THEN (IF ~follow THEN <<"Redirect">> ELSE <<"OK (redirect)">>)
         ELSE <<"OK">>
    ELSE <<"Error">>

\* line 92: hrefs that are not looked at
SkippedHref(href) ==
    \/ href = <<>>
    \/ StartsWith(href, <<"#">>)
    \/ StartsWith(href, <<"mailto", ":">>)
    \/ StartsWith(href, <<"tel", ":">>)
    \/ StartsWith(href, <<"javascript", ":">>)

\* the scheme test left out
CheckedSchemeAny(scheme) == TRUE

\* line 98: schemes that are checked
CheckedScheme(scheme) == scheme \in {"http", "https"}

\* line 106: links that are not checked because they are external
UnwantedExternal(chk_ext, internal) == ~chk_ext /\ ~internal

\* the queue test left out
EnqueuesQueued(internal, url, vis, queue) == internal /\ url \notin vis

\* the test for internal links left out
EnqueuesExternal(internal, url, vis, queue) ==
    url \notin vis /\ url \notin Range(queue)

\* the test for visited pages left out
EnqueuesVisited(internal, url, vis, queue) ==
    internal /\ url \notin Range(queue)

\* line 147: whether a checked link is queued
Enqueues(internal, url, vis, queue) ==
    internal /\ url \notin vis /\ url \notin Range(queue)

\* the seed accepted as soon as it is not empty
ValidSeedLoose(url) == url # <<>>

\* line 42: the seed is accepted
ValidSeed(url) ==
    StartsWith(url, <<"http", ":", "//">>) \/ StartsWith(url, <<"https", ":", "//">>)

\* the loop test off by one
LoopCondOffByOne(queue, count, budget) == queue # <<>> /\ count <= budget

\* line 64: the loop test
LoopCond(queue, count, budget) == queue # <<>> /\ count < budget

\* to_visit.pop(): the last element instead of the first
PopLast(queue) ==
    [item |-> queue[Len(queue)], rest |-> SubSeq(queue, 1, Len(queue) - 1)]

\* line 65: to_visit.pop(0)
Pop0(queue) == [item |-> Head(queue), rest |-> Tail(queue)]

\* lines 177-178: str.contains on the Status column
ContainsBrokenErrorTimeout(status) ==
    \E i \in 1..Len(status) :
        status[i] \in {"Broken", "Error", ChunkedEncodingMsg[1]}
ContainsRedirect(status) ==
    \E i \in 1..Len(status) : status[i] = "Redirect"

\* lines 182-183: len(broken_df) and len(redirect_df)
CountBroken(recs) ==
    Cardinality({i \in 1..Len(recs) : ContainsBrokenErrorTimeout(recs[i].Status)})
CountRedirect(recs) ==
    Cardinality({i \in 1..Len(recs) : ContainsRedirect(recs[i].Status)})

\* an entry of the history of to_visit: the URL and len(results) when it was put in
Queued(url, nrec) == [url |-> url, nrec |-> nrec]

NoMetrics == [shown |-> FALSE, pages |-> 0, broken |-> 0, redirects |-> 0]
NoLast ==
    [kind |-> "none", page |-> <<>>, href |-> <<>>, rest |-> <<>>,
     head |-> NoRequest, get_issued |-> FALSE, get |-> NoRequest, idx |-> 0]

----------------------------------------------------------------------------
(* The script *)

Init ==
    /\ start_url \in Seeds
    /\ max_pages \in 1..MaxBudget
    /\ check_external \in BOOLEAN
    /\ follow_redirects \in BOOLEAN
    /\ pc = "idle"
    /\ visited = {}
    /\ to_visit = <<>>
    /\ results = <<>>
    /\ domain = <<>>
    /\ page_count = 0
    /\ current_url = <<>>
    /\ anchors = 0
    /\ metrics = NoMetrics
    /\ served = 0
    /\ popped = {}
    /\ last = NoLast
    /\ fetched = NoRequest
    /\ appended = <<>>
    /\ order = <<>>

config == <<start_url, max_pages, check_external, follow_redirects>>

\* lines 40-62: the button is pressed
StartScan ==
    /\ pc = "idle"
    /\ IF ~ValidSeed(start_url)
       THEN /\ pc' = "stopped"
            /\ UNCHANGED <<visited, to_visit, results, domain, page_count, appended>>
       ELSE /\ visited' = {}
            /\ to_visit' = <<Strip(start_url)>>
            /\ appended' = <<Queued(Strip(start_url), 0)>>
            /\ results' = <<>>
            /\ IF urlsplit(start_url, "").raises
               THEN \* line 53 raises outside any try: the script ends there
                    /\ pc' = "crashed"
                    /\ UNCHANGED <<domain, page_count>>
               ELSE /\ pc' = "loop"
                    /\ domain' = urlsplit(start_url, "").netloc
                    /\ page_count' = 0
    /\ UNCHANGED <<config, current_url, anchors, metrics, served, popped, last,
                   fetched, order>>

\* lines 90 and 150-152: after the last anchor the script is back at the loop test
AfterAnchor(left) == IF left = 0 THEN "loop" ELSE "links"

\* lines 64-88 and 154-161: the loop test passes, a page is taken from the queue
\* and requested
VisitPage ==
    /\ pc = "loop"
    /\ LoopCond(to_visit, page_count, max_pages)
    /\ LET p == Pop0(to_visit) IN
        /\ current_url' = p.item
        /\ to_visit' = p.rest
        /\ popped' = popped \cup {p.item}
        /\ IF p.item \in visited
           THEN UNCHANGED <<pc, visited, page_count, results, anchors, served,
                            fetched, order>>
           ELSE /\ visited' = visited \cup {p.item}
                /\ order' = Append(order, p.item)
                /\ page_count' = page_count + 1
                /\ \E resp \in PageResponses, n \in 0..(MaxAnchors - served) :
                     /\ fetched' = resp
                     /\ IF resp.raises
                        THEN /\ results' = Append(results, FailedRecord(p.item, resp.msg))
                             /\ UNCHANGED <<pc, anchors, served>>
                        ELSE IF LoadFailed(resp.status)
                        THEN /\ results' = Append(results, SelfRecord(p.item, resp.status))
                             /\ UNCHANGED <<pc, anchors, served>>
                        ELSE /\ anchors' = n
                             /\ served' = served + n
                             /\ pc' = AfterAnchor(n)
                             /\ UNCHANGED results
    /\ last' = NoLast
    /\ UNCHANGED <<config, domain, metrics, appended>>

\* the record of a checked link with the URL of the page as its Link, as in the
\* records of lines 78-84 and 155-161
LinkRecordOfPage(abs_url, internal, code) ==
    [Page |-> current_url, Link |-> current_url,
     Type |-> IF internal THEN "Internal" ELSE "External",
     Code |-> code,
     Status |-> StatusStr(code, follow_redirects)]

\* lines 127-142: the record of a checked link
LinkRecord(abs_url, internal, code) ==
    [Page |-> current_url, Link |-> abs_url,
     Type |-> IF internal THEN "Internal" ELSE "External",
     Code |-> code,
     Status |-> StatusStr(code, follow_redirects)]

\* lines 136-148: the record of a checked link is appended and the link queued
RecordLink(raw, abs_url, internal, head, get) ==
    /\ results' = Append(results, LinkRecord(abs_url, internal, CheckCode(head, get)))
    /\ to_visit' = IF Enqueues(internal, abs_url, visited, to_visit)
                   THEN Append(to_visit, abs_url) ELSE to_visit
    /\ appended' = IF Enqueues(internal, abs_url, visited, to_visit)
                   THEN Append(appended, Queued(abs_url, Len(results) + 1))
                   ELSE appended
    /\ anchors' = anchors - 1
    /\ pc' = AfterAnchor(anchors - 1)
    /\ last' = [NoLast EXCEPT !.kind = "record", !.page = current_url, !.href = raw,
                              !.head = head, !.get_issued = IssuesGet(head),
                              !.get = IF IssuesGet(head) THEN get ELSE NoRequest,
                              !.idx = Len(results) + 1]

\* lines 93, 99, 107: continue
SkipLink(raw) ==
    /\ anchors' = anchors - 1
    /\ pc' = AfterAnchor(anchors - 1)
    /\ last' = [NoLast EXCEPT !.kind = "skip", !.page = current_url, !.href = raw]
    /\ UNCHANGED <<results, to_visit, appended>>

\* lines 154-161: an exception leaves the loop over the anchors; rest is the list
\* of the anchors the loop never reaches
FailPage(raw, msg) ==
    /\ results' = Append(results, FailedRecord(current_url, msg))
    /\ anchors' = 0
    /\ pc' = "loop"
    /\ \E rest \in Anchors(anchors - 1) :
         last' = [NoLast EXCEPT !.kind = "raise", !.page = current_url, !.href = raw,
                                !.rest = rest, !.idx = Len(results) + 1]
    /\ UNCHANGED <<to_visit, appended>>

\* lines 105-148, with the link classified
ClassifiedStep(raw, abs_url, internal) ==
    IF UnwantedExternal(check_external, internal) THEN SkipLink(raw)
    ELSE \E head \in HeadResponses, get \in GetResponses :
            RecordLink(raw, abs_url, internal, head, get)

\* lines 96-148, with abs_url joined and parsed
LinkStep(raw, joined, parsed) ==
    IF joined.raises THEN FailPage(raw, joined.msg)
    ELSE IF parsed.raises THEN FailPage(raw, parsed.msg)
    ELSE IF ~CheckedScheme(parsed.scheme) THEN SkipLink(raw)
    ELSE ClassifiedStep(raw, joined.url, is_internal(parsed.netloc, domain))

\* lines 95-96: abs_url is joined and parsed
ResolveLink(raw, joined) == LinkStep(raw, joined, urlsplit(joined.url, ""))

\* lines 90-148 and 154-161: one iteration of the loop over the anchors of the page.
\* The href of an anchor is drawn when the loop reaches it.
CheckLink ==
    /\ pc = "links"
    /\ anchors > 0
    /\ \E raw \in Hrefs :
        IF SkippedHref(Strip(raw)) THEN SkipLink(raw)
        ELSE ResolveLink(raw, urljoin(current_url, Strip(raw)))
    /\ UNCHANGED <<config, visited, domain, page_count, current_url, metrics,
                   served, popped, fetched, order>>

\* lines 64 and 163-183: the loop test fails and the report is shown
Report ==
    /\ pc = "loop"
    /\ ~LoopCond(to_visit, page_count, max_pages)
    /\ pc' = "done"
    /\ metrics' = IF results = <<>> THEN NoMetrics
                  ELSE [shown |-> TRUE,
                        pages |-> Cardinality(visited),
                        broken |-> CountBroken(results),
                        redirects |-> CountRedirect(results)]
    /\ UNCHANGED <<config, visited, to_visit, results, domain, page_count,
                   current_url, anchors, served, popped, last, fetched,
                   appended, order>>

Next == StartScan \/ VisitPage \/ CheckLink \/ Report

Spec == Init /\ [][Next]_vars

\* The script is one sequential thread and every request it makes carries a
\* timeout (lines 76, 113-117, 122), so a step that can be taken is taken.
LiveSpec == Spec /\ WF_vars(Next)

----------------------------------------------------------------------------
(* Properties *)

\* the records of checked links, as opposed to the records of pages
IsLinkRecord(r) == r.Type \in {"Internal", "External"}

\* the seed as it is queued
SeedURL == Strip(start_url)

\* C1: the number of URLs in visited never exceeds the page budget, and every
\* URL in visited was returned by to_visit.pop(0)
C1_VisitedWithinBudget ==
    /\ Cardinality(visited) <= max_pages
    /\ visited \subseteq popped

\* C1 witness: the budget is reached while the queue still holds a page
C1_Witness ==
    /\ pc = "done"
    /\ Cardinality(visited) = max_pages
    /\ to_visit # <<>>

\* C2: no URL occurs twice in to_visit, and no URL of visited is in to_visit
C2_FrontierUnique ==
    /\ \A i, j \in 1..Len(to_visit) : i # j => to_visit[i] # to_visit[j]
    /\ \A i \in 1..Len(to_visit) : to_visit[i] \notin visited

\* C2 witness: a page repeats a link that is queued, or links to a page already
\* visited (itself or the seed)
C2_Witness ==
    /\ last.kind = "record"
    /\ results[last.idx].Type = "Internal"
    /\ \/ results[last.idx].Link \in visited
       \/ \E i \in 1..(last.idx - 1) :
            /\ results[i].Link = results[last.idx].Link
            /\ results[i].Link \in Range(to_visit)

\* C3: a record is Broken exactly when its status code is a number >= 400, and
\* Redirect exactly when its status code is 301, 302, 307 or 308 and redirects
\* are not treated as OK
C3_BrokenRedirectIff ==
    \A i \in 1..Len(results) :
        LET r == results[i] IN
        /\ r.Status = <<"Broken">> <=> (r.Code.int /\ r.Code.n >= 400)
        /\ r.Status = <<"Redirect">> <=>
              (r.Code.int /\ r.Code.n \in {301, 302, 307, 308} /\ ~follow_redirects)

\* C3 witness: a Broken record and a Redirect record
C3_Witness ==
    /\ \E i \in 1..Len(results) : results[i].Status = <<"Broken">>
    /\ \E i \in 1..Len(results) : results[i].Status = <<"Redirect">>

\* C4 (as claimed): a record is Error exactly when its status code is the
\* sentinel of a transport failure, for the records of links and of pages
C4_ErrorIffSentinel ==
    \A i \in 1..Len(results) :
        results[i].Status = <<"Error">> <=> ~results[i].Code.int

\* hosts that are equal up to one leading "www."
AliasHosts(a, b) == a = b \/ a = <<"www.">> \o b \/ b = <<"www.">> \o a

\* C5 (as claimed): a checked link whose host equals the seed host up to a
\* leading "www." on either side is recorded as Internal
C5_WwwSymmetric ==
    \A i \in 1..Len(results) :
        (IsLinkRecord(results[i])
            /\ AliasHosts(urlsplit(results[i].Link, "").netloc, domain))
        => results[i].Type = "Internal"

\* the status codes C6 is about
IsRedirectRecord(r) ==
    IsLinkRecord(r) /\ r.Code.int /\ r.Code.n \in {301, 302, 307, 308}

\* C6 (as claimed): a link answered 301, 302, 307 or 308 is recorded with the
\* outcome OK when redirects are treated as OK and with the outcome Redirect
\* otherwise, and the outcome of a link record, the value of its Status column,
\* is one of the four values OK, Redirect, Broken, Error
C6_RedirectIsOKOrRedirect ==
    \A i \in 1..Len(results) :
        LET r == results[i] IN
        /\ IsRedirectRecord(r) =>
              r.Status = (IF follow_redirects THEN <<"OK">> ELSE <<"Redirect">>)
        /\ IsLinkRecord(r) =>
              r.Status \in {<<"OK">>, <<"Redirect">>, <<"Broken">>, <<"Error">>}

\* the probe failed or was answered "method not allowed"
ProbeUnusable(head) == head.raises \/ head.status = 405

\* C7 (as claimed): when the HEAD request fails or is answered 405, a GET is
\* issued and its status is recorded, and the link is Error only when the GET
\* fails too
C7_FallbackOnUnsupported ==
    last.kind = "record" =>
        LET r == results[last.idx] IN
        /\ ProbeUnusable(last.head) => last.get_issued
        /\ (ProbeUnusable(last.head) /\ last.get_issued /\ ~last.get.raises)
              => r.Code = IntCode(last.get.status)
        /\ r.Status = <<"Error">> <=>
              (ProbeUnusable(last.head) /\ last.get_issued /\ last.get.raises)

\* an href that is empty once trimmed, begins with "#", "mailto:", "tel:" or
\* "javascript:", or resolves against page to a scheme other than http and https
NonNavigationalText(h, j) ==
    \/ h = <<>>
    \/ h[1] = "#"
    \/ Len(h) >= 2 /\ h[2] = ":" /\ h[1] \in {"mailto", "tel", "javascript"}
    \/ ~j.raises /\ urlsplit(j.url, "").scheme \notin {"http", "https"}
NonNavigational(raw, page) ==
    NonNavigationalText(Strip(raw), urljoin(page, Strip(raw)))

\* C8: the iteration over a non-navigational href appends no record and queues
\* nothing
C8_SkipsLeaveNoTrace ==
    [][(pc = "links" /\ NonNavigational(last'.href, current_url))
          => (results' = results /\ to_visit' = to_visit)]_vars

\* C8 witness: the loop has just passed "ftp://example.com/f" on a loaded page
C8_Witness ==
    /\ last.kind = "skip"
    /\ last.href = <<"ftp", ":", "//", "example.com", "/f">>
    /\ NonNavigational(last.href, last.page)

\* C9: every URL in to_visit or visited is the seed or is classified internal
SeedOrInternal(u) == u = SeedURL \/ is_internal(urlsplit(u, "").netloc, domain)
C9_OnlyInternalQueued ==
    /\ \A u \in visited : SeedOrInternal(u)
    /\ \A i \in 1..Len(to_visit) : SeedOrInternal(to_visit[i])

\* C9 witness: external links are checked, one was recorded, and the queue
\* holds a page that is not the seed
C9_Witness ==
    /\ check_external
    /\ \E i \in 1..Len(results) : results[i].Type = "External"
    /\ \E u \in Range(to_visit) : u # SeedURL

\* an href that is looked at, resolves to http or https and is internal
QualifiesInternalText(h, j) ==
    /\ ~NonNavigationalText(h, j)
    /\ ~j.raises
    /\ is_internal(urlsplit(j.url, "").netloc, domain)
QualifiesInternal(raw, page) ==
    QualifiesInternalText(Strip(raw), urljoin(page, Strip(raw)))

\* C10 (as claimed): when external links are not checked no record has type
\* External, and every qualifying internal href of a loaded page yields a record
\* whose link is the href resolved against the page
C10_InternalHrefsRecorded ==
    [][pc = "links" =>
        /\ ~check_external =>
              \A i \in 1..Len(results') : results'[i].Type # "External"
        /\ QualifiesInternal(last'.href, current_url) =>
              /\ Len(results') = Len(results) + 1
              /\ results'[Len(results')].Type = "Internal"
              /\ results'[Len(results')].Page = current_url
              /\ results'[Len(results')].Link
                    = urljoin(current_url, Strip(last'.href)).url
        /\ \A k \in 1..Len(last'.rest) :
              ~QualifiesInternal(last'.rest[k], current_url)]_vars

\* the request of the page just taken from the queue was answered with a status
\* >= 400 or raised
PageFetchFailed(resp) == resp.raises \/ resp.status >= 400

\* C11: the iteration over a page whose request is answered with a status >= 400
\* or raises appends exactly one record, whose Page and Link are the URL of the
\* page, iterates over no anchor, puts nothing into to_visit, and is back at the
\* loop test
C11_FailedPageOneRecord ==
    [][(pc = "loop" /\ page_count' = page_count + 1 /\ PageFetchFailed(fetched'))
          => /\ Len(results') = Len(results) + 1
             /\ SubSeq(results', 1, Len(results)) = results
             /\ results'[Len(results')].Page = current_url'
             /\ results'[Len(results')].Link = current_url'
             /\ anchors' = 0
             /\ served' = served
             /\ to_visit' = Tail(to_visit)
             /\ pc' = "loop"]_vars

\* C11 witness: the request of a page other than the seed has just raised, its
\* record is the latest one, and the queue still holds a page
C11_Witness ==
    /\ pc = "loop"
    /\ fetched.raises
    /\ last.kind = "none"
    /\ current_url # SeedURL
    /\ results # <<>>
    /\ results[Len(results)].Type = "Page itself"
    /\ results[Len(results)].Link = current_url
    /\ to_visit # <<>>

\* the text typed as the seed begins with "http://" or "https://"
SeedBeginsWithHttp ==
    /\ Len(start_url) >= 3
    /\ start_url[1] \in {"http", "https"}
    /\ start_url[2] = ":"
    /\ start_url[3] = "//"

\* C12 (as claimed): once the button is pressed with a seed that begins with
\* "http://" or "https://", the loop ends and the results section runs, whatever
\* the requests did (the warning of line 173, shown in place of the report when
\* there is no record, counted as the report)
C12_CrawlReachesReport ==
    (pc # "idle" /\ SeedBeginsWithHttp)
        ~> (pc = "done" /\ (metrics.shown <=> results # <<>>))

\* C13: when the seed begins neither with "http://" nor with "https://", no page
\* is requested, no link is checked, visited and to_visit stay as they were and
\* no record and no report is produced
C13_InvalidSeedNoCrawl ==
    ~SeedBeginsWithHttp =>
        /\ pc \in {"idle", "stopped"}
        /\ visited = {}
        /\ to_visit = <<>>
        /\ appended = <<>>
        /\ popped = {}
        /\ fetched = NoRequest
        /\ last = NoLast
        /\ results = <<>>
        /\ page_count = 0
        /\ ~metrics.shown

\* C13 witness: the button was pressed with the seed "example.com"
C13_Witness ==
    /\ pc = "stopped"
    /\ start_url = <<"example.com">>

\* an href that is looked at and that urljoin or urlparse rejects
MalformedText(h, j) ==
    /\ ~SkippedHref(h)
    /\ (j.raises \/ urlsplit(j.url, "").raises)
Malformed(raw, page) == MalformedText(Strip(raw), urljoin(page, Strip(raw)))

\* C14 (as claimed): the iteration over a malformed href appends no record, queues
\* nothing and goes on with the next href of the page
C14_MalformedHrefSkipped ==
    [][(pc = "links" /\ Malformed(last'.href, current_url))
          => /\ results' = results
             /\ to_visit' = to_visit
             /\ last'.kind = "skip"
             /\ anchors' = anchors - 1]_vars

\* the outcome of a record is Broken or Error: its label says so, or its status
\* code is the sentinel of a failure instead of a number (a link or a page that
\* could not be reached)
OutcomeBrokenOrError(r) ==
    r.Status = <<"Broken">> \/ r.Status = <<"Error">> \/ ~r.Code.int

\* the outcome of a record is Redirect
OutcomeRedirect(r) == r.Status = <<"Redirect">>

\* C15 (as claimed): the report shows |visited| as pages crawled, the number of
\* records whose outcome is Broken or Error as broken count (the records of pages
\* answered >= 400 or unreachable included), and the number of records whose
\* outcome is Redirect as redirect count, which is zero when redirects are
\* treated as OK
C15_CountsAgree ==
    metrics.shown =>
        /\ metrics.pages = Cardinality(visited)
        /\ metrics.broken =
              Cardinality({i \in 1..Len(results) : OutcomeBrokenOrError(results[i])})
        /\ metrics.redirects =
              Cardinality({i \in 1..Len(results) : OutcomeRedirect(results[i])})
        /\ follow_redirects => metrics.redirects = 0

\* a URL without its fragment
PageId(u) == PathAt(u, FindFirst(u, {"#"}, 1))

\* C16 (as claimed): two URLs that differ only in their fragment are never both
\* in to_visit or visited, and no page is requested twice under two such URLs
C16_FragmentsIgnored ==
    /\ \A a \in visited \cup Range(to_visit) :
          \A b \in visited \cup Range(to_visit) : PageId(a) = PageId(b) => a = b
    /\ \A i, j \in 1..Len(order) :
          PageId(order[i]) = PageId(order[j]) => i = j

\* C17: the pages are taken from to_visit and added to visited in the order in
\* which they were appended: the URLs visited so far are the first URLs of the
\* history of appends, in that order, and to_visit holds the remaining ones, in
\* that order
C17_FIFO ==
    /\ Len(order) <= Len(appended)
    /\ \A i \in 1..Len(order) : order[i] = appended[i].url
    /\ to_visit = [i \in 1..(Len(appended) - Len(order)) |->
                       appended[Len(order) + i].url]

\* C17 witness: two URLs were appended while the seed page was processed, the
\* first of them has been taken and visited, the second still waits
C17_Witness ==
    /\ Len(order) = 2
    /\ Len(appended) >= 3
    /\ appended[2].nrec < appended[3].nrec
    /\ order[2] = appended[2].url
    /\ to_visit # <<>>
    /\ Head(to_visit) = appended[3].url

\* an href that is looked at, resolves to http or https and is internal, or
\* external while external links are checked
QualifiesText(h, j) ==
    /\ ~NonNavigationalText(h, j)
    /\ ~j.raises
    /\ (check_external \/ is_internal(urlsplit(j.url, "").netloc, domain))
Qualifies(raw, page) == QualifiesText(Strip(raw), urljoin(page, Strip(raw)))

\* C18 (as claimed): on the page that brings page_count to max_pages every
\* qualifying href is still checked and recorded; once page_count is max_pages no
\* further page is taken from to_visit or requested; and a page is taken from
\* to_visit, and the report shown, only when no anchor of the page before is left
C18_BudgetPageFinished ==
    [][/\ (pc = "links" /\ page_count = max_pages) =>
             /\ Qualifies(last'.href, current_url) =>
                   /\ Len(results') = Len(results) + 1
                   /\ results'[Len(results')].Page = current_url
                   /\ results'[Len(results')].Link
                         = urljoin(current_url, Strip(last'.href)).url
             /\ \A k \in 1..Len(last'.rest) :
                   ~Qualifies(last'.rest[k], current_url)
       /\ page_count = max_pages =>
             /\ popped' = popped
             /\ visited' = visited
             /\ fetched' = fetched
             /\ current_url' = current_url
       /\ (popped' # popped \/ pc' = "done") => (pc = "loop" /\ anchors = 0)]_vars

\* C19: the URL at the head of to_visit is never in visited, so the test of line
\* 67 never succeeds: page_count is the number of URLs taken from to_visit so
\* far, and it is the number of URLs in visited
C19_SkipNeverTaken ==
    /\ to_visit # <<>> => Head(to_visit) \notin visited
    /\ page_count = Len(appended) - Len(to_visit)
    /\ page_count = Cardinality(visited)

\* C19 witness: a link back to the seed page was checked and recorded, and a
\* second page has been taken from to_visit since
C19_Witness ==
    /\ pc = "loop"
    /\ page_count = 2
    /\ \E i \in 1..Len(results) :
          results[i].Type = "Internal" /\ results[i].Link = order[1]

\* C20: every URL in to_visit or visited other than the seed is the Link of a
\* record of type Internal, and that record was in results when the URL was
\* appended to to_visit, whatever its status
C20_CheckedBeforeCrawled ==
    /\ \A u \in visited \cup Range(to_visit) :
          \/ u = SeedURL
          \/ \E i \in 1..Len(results) :
                results[i].Type = "Internal" /\ results[i].Link = u
    /\ \A k \in 2..Len(appended) :
          /\ appended[k].nrec \in 1..Len(results)
          /\ results[appended[k].nrec].Type = "Internal"
          /\ results[appended[k].nrec].Link = appended[k].url

\* C20 witness: a link recorded Broken and a link recorded Error were appended
\* to to_visit, and one of them has been visited
C20_Witness ==
    /\ Len(appended) >= 3
    /\ \E k \in 2..Len(appended) :
          results[appended[k].nrec].Status = <<"Broken">>
    /\ \E k \in 2..Len(appended) :
          results[appended[k].nrec].Status = <<"Error">>
    /\ \E k \in 2..Len(appended) : appended[k].url \in visited

====
